---------------------------- MODULE Spec2Model ----------------------------
(* Model of nautilus_trader/adapters/binance/parsing.py: the translators   *)
(* from Binance wire messages (REST records and websocket pushes) to the   *)
(* canonical quote, trade, ticker, bar and order book delta records.       *)
(*                                                                         *)
(* Wire strings are sequences of one-character strings, so that indexing   *)
(* (interval[0], interval[1]) and literal parsing are what the code does.  *)
(* A dict is a function whose DOMAIN is the set of keys present.  Every    *)
(* translator returns either its record or [kind |-> "error"] carrying the *)
(* Python exception raised first in the code's evaluation order.  Every    *)
(* evaluation step yields an outcome, Ok(value) or Err(exception), and a   *)
(* call whose argument already failed passes that failure on.              *)
EXTENDS Integers, Sequences, FiniteSets

VARIABLES fn, msg, ctx, ts_init, result

vars == <<fn, msg, ctx, ts_init, result>>

---------------------------------------------------------------------------
(* Outcomes of an evaluation step *)

Ok(v) == [kind |-> "ok", val |-> v]

Err(e) == [kind |-> "error", error |-> e]

IsErr(r) == r.kind = "error"

\* The first failure of a sequence of outcomes, in evaluation order
FirstError(rs) ==
    LET bad == {i \in 1..Len(rs) : IsErr(rs[i])}
    IN  rs[CHOOSE i \in bad : \A j \in bad : i <= j]

HasError(rs) == \E i \in 1..Len(rs) : IsErr(rs[i])

\* msg[key]: KeyError when the key is absent
Get(m, key) == IF key \in DOMAIN m THEN Ok(m[key]) ELSE Err("KeyError")

\* values[i] of a Python list (0-based): IndexError past the end
Index(values, i) ==
    IF i + 1 \in 1..Len(values) THEN Ok(values[i + 1]) ELSE Err("IndexError")

---------------------------------------------------------------------------
(* Literals *)

Digits == {"0", "1", "2", "3", "4", "5", "6", "7", "8", "9"}

DigitVal(c) ==
    CASE c = "0" -> 0 [] c = "1" -> 1 [] c = "2" -> 2 [] c = "3" -> 3
      [] c = "4" -> 4 [] c = "5" -> 5 [] c = "6" -> 6 [] c = "7" -> 7
      [] c = "8" -> 8 [] c = "9" -> 9

RECURSIVE DigitsVal(_)
DigitsVal(s) ==
    IF s = <<>> THEN 0
    ELSE DigitsVal(SubSeq(s, 1, Len(s) - 1)) * 10 + DigitVal(s[Len(s)])

AllDigits(s) == \A i \in 1..Len(s) : s[i] \in Digits

\* A decimal literal [sign] digits [. digits] as the exact value m * 10^-e;
\* ValueError for anything else.
ParseDecimal(s) ==
    LET signed == Len(s) > 0 /\ s[1] \in {"-", "+"}
        body   == IF signed THEN Tail(s) ELSE s
        dots   == {i \in 1..Len(body) : body[i] = "."}
        dot    == IF dots = {} THEN Len(body) + 1
                  ELSE CHOOSE i \in dots : \A j \in dots : i <= j
        ip     == SubSeq(body, 1, dot - 1)
        fp     == SubSeq(body, dot + 1, Len(body))
        mag    == DigitsVal(ip \o fp)
    IN  IF /\ Cardinality(dots) <= 1
           /\ AllDigits(ip) /\ AllDigits(fp)
           /\ Len(ip) + Len(fp) >= 1
        THEN Ok([m |-> IF signed /\ s[1] = "-" THEN 0 - mag ELSE mag,
                 e |-> Len(fp)])
        ELSE Err("ValueError")

RECURSIVE Normalize(_)
Normalize(d) ==
    IF d.e > 0 /\ d.m % 10 = 0
    THEN Normalize([m |-> d.m \div 10, e |-> d.e - 1])
    ELSE d

\* float(str): the numeric value, one representation per value
\* ("1.0" and "1" parse to the same float)
float(r) ==
    IF IsErr(r) THEN r
    ELSE LET d == ParseDecimal(r.val)
         IN  IF IsErr(d) THEN d ELSE Ok(Normalize(d.val))

\* Variant of GtZero: the comparison written >=
GtZero_Ge(x) == x.m >= 0

\* value > 0.0 on floats
GtZero(x) == x.m > 0

\* Decimal(str), Price.from_str, Quantity.from_str: the exact decimal with
\* the precision of the literal
Decimal(r) == IF IsErr(r) THEN r ELSE ParseDecimal(r.val)

Price_from_str(r) == IF IsErr(r) THEN r ELSE ParseDecimal(r.val)

Quantity_from_str(r) == IF IsErr(r) THEN r ELSE ParseDecimal(r.val)

\* int(str) of the code's one-character argument
int(r) ==
    IF IsErr(r) THEN r
    ELSE IF r.val \in Digits THEN Ok(DigitVal(r.val)) ELSE Err("ValueError")

DigitChar(d) ==
    CASE d = 0 -> "0" [] d = 1 -> "1" [] d = 2 -> "2" [] d = 3 -> "3"
      [] d = 4 -> "4" [] d = 5 -> "5" [] d = 6 -> "6" [] d = 7 -> "7"
      [] d = 8 -> "8" [] d = 9 -> "9"

RECURSIVE DecimalDigits(_)
DecimalDigits(n) ==
    IF n < 10 THEN <<DigitChar(n)>>
    ELSE DecimalDigits(n \div 10) \o <<DigitChar(n % 10)>>

\* str(int) for a non-negative integer
str(r) == IF IsErr(r) THEN r ELSE Ok(DecimalDigits(r.val))

\* millis_to_nanos: exact integer scaling; negative input is rejected
millis_to_nanos(r) ==
    IF IsErr(r) THEN r
    ELSE IF r.val < 0 THEN Err("InvalidTimestamp")
    ELSE Ok(r.val * 1000000)

BINANCE_VENUE == "BINANCE"

InstrumentId(symbol, venue) == [symbol |-> symbol, venue |-> venue]

---------------------------------------------------------------------------
(* Order book deltas *)

Order(price, size, side) == [price |-> price, size |-> size, side |-> side]

parse_order_book_delta_ws(instrument_id, side, delta, ts_event, ts_in) ==
    LET price == float(Index(delta, 0))
        size  == float(Index(delta, 1))
    IN  IF HasError(<<price, size>>) THEN FirstError(<<price, size>>)
        ELSE [kind          |-> "OrderBookDelta",
              instrument_id |-> instrument_id,
              book_type     |-> "L2_MBP",
              action        |-> IF GtZero(size.val) THEN "UPDATE" ELSE "DELETE",
              order         |-> Order(price.val, size.val, side),
              ts_event      |-> ts_event,
              ts_init       |-> ts_in]

\* Variant of Deltas: ts_init passed in the place of ts_event
Deltas_TsSwapped(inst_id, side, levels, ts_event, ts_in) ==
    IF IsErr(levels) THEN Err("TypeError")
    ELSE LET ds == [i \in 1..Len(levels.val) |->
                      parse_order_book_delta_ws(inst_id, side, levels.val[i],
                                                ts_in, ts_in)]
         IN  IF HasError(ds) THEN FirstError(ds) ELSE Ok(ds)

\* [f(d) for d in levels]: iterating None raises TypeError
Deltas(inst_id, side, levels, ts_event, ts_in) ==
    IF IsErr(levels) THEN Err("TypeError")
    ELSE LET ds == [i \in 1..Len(levels.val) |->
                      parse_order_book_delta_ws(inst_id, side, levels.val[i],
                                                ts_event, ts_in)]
         IN  IF HasError(ds) THEN FirstError(ds) ELSE Ok(ds)

\* Variant of parse_diff_depth_stream_ws: ask deltas before bid deltas
parse_diff_depth_stream_ws_AsksFirst(m, symbol, ts_in) ==
    LET inst_id    == InstrumentId(symbol, BINANCE_VENUE)
        ts_event   == millis_to_nanos(Get(m, "E"))
        bid_deltas == Deltas(inst_id, "BUY", Get(m, "b"), ts_event.val, ts_in)
        ask_deltas == Deltas(inst_id, "SELL", Get(m, "a"), ts_event.val, ts_in)
        steps      == <<ts_event, bid_deltas, ask_deltas>>
    IN  IF IsErr(ts_event) THEN ts_event
        ELSE IF HasError(steps) THEN FirstError(steps)
        ELSE [kind          |-> "OrderBookDeltas",
              instrument_id |-> inst_id,
              book_type     |-> "L2_MBP",
              deltas        |-> ask_deltas.val \o bid_deltas.val,
              ts_event      |-> ts_event.val,
              ts_init       |-> ts_in]

parse_diff_depth_stream_ws(m, symbol, ts_in) ==
    LET inst_id    == InstrumentId(symbol, BINANCE_VENUE)
        ts_event   == millis_to_nanos(Get(m, "E"))
        bid_deltas == Deltas(inst_id, "BUY", Get(m, "b"), ts_event.val, ts_in)
        ask_deltas == Deltas(inst_id, "SELL", Get(m, "a"), ts_event.val, ts_in)
        steps      == <<ts_event, bid_deltas, ask_deltas>>
    IN  IF IsErr(ts_event) THEN ts_event
        ELSE IF HasError(steps) THEN FirstError(steps)
        ELSE [kind          |-> "OrderBookDeltas",
              instrument_id |-> inst_id,
              book_type     |-> "L2_MBP",
              deltas        |-> bid_deltas.val \o ask_deltas.val,
              ts_event      |-> ts_event.val,
              ts_init       |-> ts_in]

---------------------------------------------------------------------------
(* Ticker, quote and trade ticks *)

parse_ticker_ws(m, symbol, ts_in) ==
    LET price_change         == Decimal(Get(m, "p"))
        price_change_percent == Decimal(Get(m, "P"))
        weighted_avg_price   == Decimal(Get(m, "w"))
        prev_close_price     == Decimal(Get(m, "x"))
        last_price           == Decimal(Get(m, "c"))
        last_qty             == Decimal(Get(m, "Q"))
        bid_price            == Decimal(Get(m, "b"))
        ask_price            == Decimal(Get(m, "a"))
        open_price           == Decimal(Get(m, "o"))
        high_price           == Decimal(Get(m, "h"))
        low_price            == Decimal(Get(m, "l"))
        volume               == Decimal(Get(m, "v"))
        quote_volume         == Decimal(Get(m, "q"))
        open_time_ms         == Get(m, "O")
        close_time_ms        == Get(m, "C")
        first_id             == Get(m, "F")
        last_id              == Get(m, "L")
        count                == Get(m, "n")
        ts_event             == millis_to_nanos(Get(m, "E"))
        steps == <<price_change, price_change_percent, weighted_avg_price,
                   prev_close_price, last_price, last_qty, bid_price,
                   ask_price, open_price, high_price, low_price, volume,
                   quote_volume, open_time_ms, close_time_ms, first_id,
                   last_id, count, ts_event>>
    IN  IF HasError(steps) THEN FirstError(steps)
        ELSE [kind                 |-> "BinanceTicker",
              instrument_id        |-> InstrumentId(symbol, BINANCE_VENUE),
              price_change         |-> price_change.val,
              price_change_percent |-> price_change_percent.val,
              weighted_avg_price   |-> weighted_avg_price.val,
              prev_close_price     |-> prev_close_price.val,
              last_price           |-> last_price.val,
              last_qty             |-> last_qty.val,
              bid_price            |-> bid_price.val,
              ask_price            |-> ask_price.val,
              open_price           |-> open_price.val,
              high_price           |-> high_price.val,
              low_price            |-> low_price.val,
              volume               |-> volume.val,
              quote_volume         |-> quote_volume.val,
              open_time_ms         |-> open_time_ms.val,
              close_time_ms        |-> close_time_ms.val,
              first_id             |-> first_id.val,
              last_id              |-> last_id.val,
              count                |-> count.val,
              ts_event             |-> ts_event.val,
              ts_init              |-> ts_in]

parse_quote_tick_ws(m, symbol, ts_in) ==
    LET bid      == Price_from_str(Get(m, "b"))
        ask      == Price_from_str(Get(m, "a"))
        bid_size == Quantity_from_str(Get(m, "B"))
        ask_size == Quantity_from_str(Get(m, "B"))
        steps    == <<bid, ask, bid_size, ask_size>>
    IN  IF HasError(steps) THEN FirstError(steps)
        ELSE [kind          |-> "QuoteTick",
              instrument_id |-> InstrumentId(symbol, BINANCE_VENUE),
              bid           |-> bid.val,
              ask           |-> ask.val,
              bid_size      |-> bid_size.val,
              ask_size      |-> ask_size.val,
              ts_event      |-> ts_in,
              ts_init       |-> ts_in]

\* Python truthiness of the maker flag (a JSON boolean on the wire)
AggressorSide(flag) ==
    IF IsErr(flag) THEN flag ELSE Ok(IF flag.val THEN "SELL" ELSE "BUY")

\* Variant of parse_trade_tick: ts_event and ts_init exchanged
parse_trade_tick_TsSwapped(m, instrument_id, ts_in) ==
    LET price          == Price_from_str(Get(m, "price"))
        size           == Quantity_from_str(Get(m, "qty"))
        aggressor_side == AggressorSide(Get(m, "isBuyerMaker"))
        match_id       == str(Get(m, "id"))
        ts_event       == millis_to_nanos(Get(m, "time"))
        steps          == <<price, size, aggressor_side, match_id, ts_event>>
    IN  IF HasError(steps) THEN FirstError(steps)
        ELSE [kind           |-> "TradeTick",
              instrument_id  |-> instrument_id,
              price          |-> price.val,
              size           |-> size.val,
              aggressor_side |-> aggressor_side.val,
              match_id       |-> match_id.val,
              ts_event       |-> ts_in,
              ts_init        |-> ts_event.val]

parse_trade_tick(m, instrument_id, ts_in) ==
    LET price          == Price_from_str(Get(m, "price"))
        size           == Quantity_from_str(Get(m, "qty"))
        aggressor_side == AggressorSide(Get(m, "isBuyerMaker"))
        match_id       == str(Get(m, "id"))
        ts_event       == millis_to_nanos(Get(m, "time"))
        steps          == <<price, size, aggressor_side, match_id, ts_event>>
    IN  IF HasError(steps) THEN FirstError(steps)
        ELSE [kind           |-> "TradeTick",
              instrument_id  |-> instrument_id,
              price          |-> price.val,
              size           |-> size.val,
              aggressor_side |-> aggressor_side.val,
              match_id       |-> match_id.val,
              ts_event       |-> ts_event.val,
              ts_init        |-> ts_in]

\* Variant of parse_trade_tick_ws: the maker flag read the other way round
parse_trade_tick_ws_Inverted(m, symbol, ts_in) ==
    LET price          == Price_from_str(Get(m, "p"))
        size           == Quantity_from_str(Get(m, "q"))
        flag           == Get(m, "m")
        aggressor_side == IF IsErr(flag) THEN flag
                          ELSE AggressorSide(Ok(~flag.val))
        match_id       == str(Get(m, "t"))
        ts_event       == millis_to_nanos(Get(m, "T"))
        steps          == <<price, size, aggressor_side, match_id, ts_event>>
    IN  IF HasError(steps) THEN FirstError(steps)
        ELSE [kind           |-> "TradeTick",
              instrument_id  |-> InstrumentId(symbol, BINANCE_VENUE),
              price          |-> price.val,
              size           |-> size.val,
              aggressor_side |-> aggressor_side.val,
              match_id       |-> match_id.val,
              ts_event       |-> ts_event.val,
              ts_init        |-> ts_in]

parse_trade_tick_ws(m, symbol, ts_in) ==
    LET price          == Price_from_str(Get(m, "p"))
        size           == Quantity_from_str(Get(m, "q"))
        aggressor_side == AggressorSide(Get(m, "m"))
        match_id       == str(Get(m, "t"))
        ts_event       == millis_to_nanos(Get(m, "T"))
        steps          == <<price, size, aggressor_side, match_id, ts_event>>
    IN  IF HasError(steps) THEN FirstError(steps)
        ELSE [kind           |-> "TradeTick",
              instrument_id  |-> InstrumentId(symbol, BINANCE_VENUE),
              price          |-> price.val,
              size           |-> size.val,
              aggressor_side |-> aggressor_side.val,
              match_id       |-> match_id.val,
              ts_event       |-> ts_event.val,
              ts_init        |-> ts_in]

---------------------------------------------------------------------------
(* Bars *)

parse_bar(bar_type, values, ts_in) ==
    LET open     == Price_from_str(Index(values, 1))
        high     == Price_from_str(Index(values, 2))
        low      == Price_from_str(Index(values, 3))
        close    == Price_from_str(Index(values, 4))
        volume   == Quantity_from_str(Index(values, 5))
        quote_volume == Quantity_from_str(Index(values, 7))
        count    == Index(values, 8)
        taker_buy_base_volume  == Quantity_from_str(Index(values, 9))
        taker_buy_quote_volume == Quantity_from_str(Index(values, 10))
        ts_event == millis_to_nanos(Index(values, 0))
        steps    == <<open, high, low, close, volume, quote_volume, count,
                      taker_buy_base_volume, taker_buy_quote_volume, ts_event>>
    IN  IF HasError(steps) THEN FirstError(steps)
        ELSE [kind         |-> "BinanceBar",
              bar_type     |-> bar_type,
              open         |-> open.val,
              high         |-> high.val,
              low          |-> low.val,
              close        |-> close.val,
              volume       |-> volume.val,
              quote_volume |-> quote_volume.val,
              count        |-> count.val,
              taker_buy_base_volume  |-> taker_buy_base_volume.val,
              taker_buy_quote_volume |-> taker_buy_quote_volume.val,
              ts_event     |-> ts_event.val,
              ts_init      |-> ts_in]

BarSpecification(step, aggregation, price_type) ==
    [step |-> step, aggregation |-> aggregation, price_type |-> price_type]

BarType(instrument_id, bar_spec, aggregation_source) ==
    [instrument_id      |-> instrument_id,
     bar_spec           |-> bar_spec,
     aggregation_source |-> aggregation_source]

\* resolution = interval[1] and the if/elif chain on it
Aggregation(interval) ==
    LET resolution == IF IsErr(interval) THEN interval
                      ELSE Index(interval.val, 1)
    IN  IF IsErr(resolution) THEN resolution
        ELSE IF resolution.val = "m" THEN Ok("MINUTE")
        ELSE IF resolution.val = "h" THEN Ok("HOUR")
        ELSE IF resolution.val = "d" THEN Ok("DAY")
        ELSE Err("RuntimeError")

\* step = int(interval[0])
Step(interval) ==
    IF IsErr(interval) THEN interval ELSE int(Index(interval.val, 0))

parse_bar_ws(m, kline, ts_in) ==
    LET interval    == Get(kline, "i")
        aggregation == Aggregation(interval)
        step        == Step(interval)
        symbol      == Get(kline, "s")
        open        == Price_from_str(Get(kline, "o"))
        high        == Price_from_str(Get(kline, "h"))
        low         == Price_from_str(Get(kline, "l"))
        close       == Price_from_str(Get(kline, "c"))
        volume      == Quantity_from_str(Get(kline, "v"))
        quote_volume == Quantity_from_str(Get(kline, "q"))
        count       == Get(kline, "n")
        taker_buy_base_volume  == Quantity_from_str(Get(kline, "V"))
        taker_buy_quote_volume == Quantity_from_str(Get(kline, "Q"))
        ts_event    == millis_to_nanos(Get(m, "E"))
        steps == <<interval, aggregation, step, symbol, open, high, low,
                   close, volume, quote_volume, count, taker_buy_base_volume,
                   taker_buy_quote_volume, ts_event>>
    IN  IF HasError(steps) THEN FirstError(steps)
        ELSE [kind         |-> "BinanceBar",
              bar_type     |-> BarType(
                  InstrumentId(symbol.val, BINANCE_VENUE),
                  BarSpecification(step.val, aggregation.val, "LAST"),
                  "EXTERNAL"),
              open         |-> open.val,
              high         |-> high.val,
              low          |-> low.val,
              close        |-> close.val,
              volume       |-> volume.val,
              quote_volume |-> quote_volume.val,
              count        |-> count.val,
              taker_buy_base_volume  |-> taker_buy_base_volume.val,
              taker_buy_quote_volume |-> taker_buy_quote_volume.val,
              ts_event     |-> ts_event.val,
              ts_init      |-> ts_in]

---------------------------------------------------------------------------
(* Inputs: the wire messages and the caller's context *)

MaxLevels == 2

MaxStepDigits == 2

SeqsUpTo(S, n) == UNION {[1..k -> S] : k \in 0..n}

Without(m, k) == [j \in DOMAIN m \ {k} |-> m[j]]

\* Each message of M, and each with one of its keys absent
DropAtMostOne(M) == M \cup UNION {{Without(m, k) : k \in DOMAIN m} : m \in M}

Symbols == {"BTCUSDT", "ETHUSDT"}

TsInits == {7, 5000}

Millis == {0, 1000, 2000, -1}

BadLit == <<"1", "x">>

\* [price, size] level tuples as Binance sends them, a short one, and one
\* with a trailing third element
LevelTuples ==
    { <<<<"1", "0", ".", "0">>, <<"1", ".", "0">>>>,
      <<<<"9", ".", "5">>, <<"0">>>>,
      <<<<"1", "1", ".", "0">>, <<"-", "1">>>>,
      <<<<"1", "0", ".", "0">>>>,
      <<<<"1", "0", ".", "0">>, <<"1", ".", "0">>, <<>>>> }

\* Every pair of level lists up to MaxLevels long; a list, the event time
\* or both lists absent; a negative event time
DepthMsgs ==
    [E : {1000},
     b : SeqsUpTo(LevelTuples, MaxLevels),
     a : SeqsUpTo(LevelTuples, MaxLevels)]
        \cup [E : {1000}, b : SeqsUpTo(LevelTuples, MaxLevels)]
        \cup [E : {1000}, a : SeqsUpTo(LevelTuples, MaxLevels)]
        \cup [E : {1000, -1}]
        \cup DropAtMostOne([E : {-1, 2000},
                            b : SeqsUpTo(LevelTuples, 1),
                            a : SeqsUpTo(LevelTuples, 1)])

SizeLits ==
    { <<"0">>, <<"0", ".", "0", "0">>, <<"-", "0">>, <<"2">>, <<"+", "2">>,
      <<"2", ".", "0">>, <<"0", ".", "0", "1">>, <<"-", "0", ".", "5">>,
      <<".", "5">>, <<"1", ".">>, <<".">>, <<>>, <<"1", ".", "2", ".", "3">>,
      BadLit }

DeltaTuples ==
    {<<p, z>> : p \in {<<"9", ".", "5">>, BadLit}, z \in SizeLits}
        \cup {<<z>> : z \in SizeLits} \cup {<<>>}
        \cup {<<<<"9", ".", "5">>, z, <<>>>> : z \in SizeLits}

DeltaCtxs ==
    [instrument_id : {InstrumentId(y, BINANCE_VENUE) : y \in Symbols},
     side          : {"BUY", "SELL"},
     ts_event      : {0, 1000000000}]

TickerMsgs ==
    DropAtMostOne(
        [p : {<<"-", "1", ".", "5">>, BadLit}, P : {<<"-", "0", ".", "2">>},
         w : {<<"9", ".", "7">>}, x : {<<"9", ".", "9">>},
         c : {<<"9", ".", "6">>}, Q : {<<"0", ".", "0", "1">>},
         b : {<<"9", ".", "5">>}, a : {<<"9", ".", "8">>},
         o : {<<"9", ".", "0">>}, h : {<<"1", "1", ".", "0">>},
         l : {<<"8", ".", "5">>}, v : {<<"3", "0">>, BadLit},
         q : {<<"2", "9", "0">>},
         O : {0}, C : {1000}, F : {41}, L : {57}, n : {17},
         E : {1000, 2000, -1}])

QuoteMsgs ==
    DropAtMostOne(
        [u : {400},
         b : {<<"9", ".", "5">>, BadLit}, a : {<<"9", ".", "8">>},
         B : {<<"1", ".", "0">>, <<"2", ".", "5">>},
         A : {<<"1", ".", "0">>, <<"3">>, BadLit}])

TradeIds == {0, 7, 42, 120}

RestTradeMsgs ==
    DropAtMostOne(
        [price : {<<"1", "0", "0", ".", "5">>, BadLit},
         qty : {<<"0", ".", "0", "1">>},
         isBuyerMaker : BOOLEAN, id : TradeIds, time : Millis])

WsTradeMsgs ==
    DropAtMostOne(
        [p : {<<"1", "0", "0", ".", "5">>, BadLit},
         q : {<<"0", ".", "0", "1">>},
         m : BOOLEAN, t : TradeIds, T : Millis, E : {2001}])

InstrumentIds == {InstrumentId(y, v) : y \in Symbols, v \in {BINANCE_VENUE, "FTX"}}

BarTypes ==
    {BarType(InstrumentId("BTCUSDT", BINANCE_VENUE),
             BarSpecification(n, "MINUTE", "LAST"), "EXTERNAL") : n \in {1, 15}}

\* [open_time, open, high, low, close, volume, close_time, quote_volume,
\*  count, taker_buy_base_vol, taker_buy_quote_vol, ignore], and its prefixes
KlineRows ==
    {<<t, o, <<"1", "1", ".", "0">>, <<"8", ".", "5">>, <<"9", ".", "6">>,
       <<"3", "0">>, t + 59, <<"2", "9", "0">>, 17, <<"1", "2">>, b,
       <<"0">> >> :
        t \in Millis, o \in {<<"9", ".", "0">>, BadLit},
        b \in {<<"1", "1", "6">>, BadLit}}

KlineValues == {SubSeq(r, 1, k) : r \in KlineRows, k \in 0..12}

\* Interval codes: up to MaxStepDigits digits and a unit letter
Intervals ==
    {ds \o <<un>> : ds \in SeqsUpTo({"1", "2", "5"}, MaxStepDigits),
                    un \in {"m", "h", "d", "w", "M"}}

KlinesWith(intervals) ==
    [i : intervals, s : Symbols,
     o : {<<"9", ".", "0">>}, h : {<<"1", "1", ".", "0">>},
     l : {<<"8", ".", "5">>}, c : {<<"9", ".", "6">>},
     v : {<<"3", "0">>}, q : {<<"2", "9", "0">>, BadLit}, n : {17},
     V : {<<"1", "2">>}, Q : {<<"1", "1", "6">>}]

Klines ==
    KlinesWith(Intervals)
        \cup DropAtMostOne(KlinesWith({<<"1", "m">>, <<"x", "m">>, <<>>}))

KlineMsgs == DropAtMostOne([E : {1000, -1}, k : {"kline"}])

Pending == [kind |-> "pending"]

---------------------------------------------------------------------------
(* One pending call per behaviour: Init draws the translator and its       *)
(* arguments, the translator's action computes the result.                 *)

Init ==
    /\ result = Pending
    /\ ts_init \in TsInits
    /\ \/ fn = "parse_diff_depth_stream_ws"
          /\ msg \in DepthMsgs /\ ctx \in Symbols
       \/ fn = "parse_order_book_delta_ws"
          /\ msg \in DeltaTuples /\ ctx \in DeltaCtxs
       \/ fn = "parse_ticker_ws" /\ msg \in TickerMsgs /\ ctx \in Symbols
       \/ fn = "parse_quote_tick_ws" /\ msg \in QuoteMsgs /\ ctx \in Symbols
       \/ fn = "parse_trade_tick"
          /\ msg \in RestTradeMsgs /\ ctx \in InstrumentIds
       \/ fn = "parse_trade_tick_ws"
          /\ msg \in WsTradeMsgs /\ ctx \in Symbols
       \/ fn = "parse_bar" /\ msg \in KlineValues /\ ctx \in BarTypes
       \/ fn = "parse_bar_ws" /\ msg \in KlineMsgs /\ ctx \in Klines

Call(name) == fn = name /\ result = Pending

ParseDiffDepthStreamWs ==
    /\ Call("parse_diff_depth_stream_ws")
    /\ result' = parse_diff_depth_stream_ws(msg, ctx, ts_init)
    /\ UNCHANGED <<fn, msg, ctx, ts_init>>

ParseOrderBookDeltaWs ==
    /\ Call("parse_order_book_delta_ws")
    /\ result' = parse_order_book_delta_ws(ctx.instrument_id, ctx.side, msg,
                                           ctx.ts_event, ts_init)
    /\ UNCHANGED <<fn, msg, ctx, ts_init>>

ParseTickerWs ==
    /\ Call("parse_ticker_ws")
    /\ result' = parse_ticker_ws(msg, ctx, ts_init)
    /\ UNCHANGED <<fn, msg, ctx, ts_init>>

ParseQuoteTickWs ==
    /\ Call("parse_quote_tick_ws")
    /\ result' = parse_quote_tick_ws(msg, ctx, ts_init)
    /\ UNCHANGED <<fn, msg, ctx, ts_init>>

ParseTradeTick ==
    /\ Call("parse_trade_tick")
    /\ result' = parse_trade_tick(msg, ctx, ts_init)
    /\ UNCHANGED <<fn, msg, ctx, ts_init>>

ParseTradeTickWs ==
    /\ Call("parse_trade_tick_ws")
    /\ result' = parse_trade_tick_ws(msg, ctx, ts_init)
    /\ UNCHANGED <<fn, msg, ctx, ts_init>>

ParseBar ==
    /\ Call("parse_bar")
    /\ result' = parse_bar(ctx, msg, ts_init)
    /\ UNCHANGED <<fn, msg, ctx, ts_init>>

ParseBarWs ==
    /\ Call("parse_bar_ws")
    /\ result' = parse_bar_ws(msg, ctx, ts_init)
    /\ UNCHANGED <<fn, msg, ctx, ts_init>>

Next ==
    \/ ParseDiffDepthStreamWs
    \/ ParseOrderBookDeltaWs
    \/ ParseTickerWs
    \/ ParseQuoteTickWs
    \/ ParseTradeTick
    \/ ParseTradeTickWs
    \/ ParseBar
    \/ ParseBarWs

Spec == Init /\ [][Next]_vars

---------------------------------------------------------------------------
(* Properties *)

Returned(name) == fn = name /\ result.kind \notin {"pending", "error"}

Failed(name) == fn = name /\ result.kind = "error"

IsLiteral(s) == ~IsErr(ParseDecimal(s))

\* The deltas the state's call produced, alone or in a batch
ProducedDeltas ==
    IF result.kind = "OrderBookDelta" THEN {result}
    ELSE IF result.kind = "OrderBookDeltas"
    THEN {result.deltas[i] : i \in 1..Len(result.deltas)}
    ELSE {}

\* C3 as stated: every produced delta has action DELETE iff its parsed size
\* equals zero and action UPDATE iff its parsed size is greater than zero.
C3_RemoveIffZero ==
    \A d \in ProducedDeltas :
        /\ d.action = "DELETE" <=> d.order.size.m = 0
        /\ d.action = "UPDATE" <=> d.order.size.m > 0

\* C3 amended: every produced delta has action UPDATE iff its parsed size is
\* greater than zero, and action DELETE iff its parsed size is zero or
\* negative; a delta with a positive size is never emitted with DELETE.
C3_UpdateIffPositive ==
    \A d \in ProducedDeltas :
        /\ d.action \in {"UPDATE", "DELETE"}
        /\ d.action = "UPDATE" <=> d.order.size.m > 0
        /\ d.action = "DELETE" <=> d.order.size.m <= 0

\* A level with a negative size came out as a DELETE
C3_Witness ==
    \E d \in ProducedDeltas : d.order.size.m < 0 /\ d.action = "DELETE"

WellFormedLevel(t) == Len(t) = 2 /\ IsLiteral(t[1]) /\ IsLiteral(t[2])

ValidDepth(m) ==
    /\ {"E", "b", "a"} \subseteq DOMAIN m
    /\ m.E >= 0
    /\ \A i \in 1..Len(m.b) : WellFormedLevel(m.b[i])
    /\ \A i \in 1..Len(m.a) : WellFormedLevel(m.a[i])

\* The delta d is the translation of level tuple t on the given side
FromLevel(d, t, side) ==
    /\ d.order.side = side
    /\ d.order.price = float(Ok(t[1])).val
    /\ d.order.size = float(Ok(t[2])).val

\* C4: a valid depth update yields a batch of len(bids) + len(asks) deltas:
\* the first len(bids) are BUY deltas matching the bid list position by
\* position, the rest are SELL deltas matching the ask list position by
\* position; empty lists contribute nothing and are no error.
C4_BatchFollowsWireOrder ==
    (fn = "parse_diff_depth_stream_ws" /\ result.kind # "pending"
        /\ ValidDepth(msg))
    => /\ result.kind = "OrderBookDeltas"
       /\ Len(result.deltas) = Len(msg.b) + Len(msg.a)
       /\ \A i \in 1..Len(msg.b) :
              FromLevel(result.deltas[i], msg.b[i], "BUY")
       /\ \A i \in 1..Len(msg.a) :
              FromLevel(result.deltas[Len(msg.b) + i], msg.a[i], "SELL")

\* Two bid levels in ascending price order on the wire, and at least one ask
C4_Witness ==
    /\ Returned("parse_diff_depth_stream_ws")
    /\ ValidDepth(msg)
    /\ Len(msg.b) = 2 /\ Len(msg.a) >= 1
    /\ msg.b[1][1] = <<"9", ".", "5">>
    /\ msg.b[2][1] = <<"1", "0", ".", "0">>
    /\ result.deltas[1].order.price = [m |-> 95, e |-> 1]
    /\ result.deltas[2].order.price = [m |-> 10, e |-> 0]
    /\ result.deltas[3].order.side = "SELL"

\* C8: in a returned batch every delta carries the batch's ts_event, which
\* is the nanosecond conversion of "E", the caller's ts_init, the batch's
\* instrument id and the L2_MBP book type.
C8_BatchIsUniform ==
    Returned("parse_diff_depth_stream_ws")
    => /\ result.ts_event = millis_to_nanos(Ok(msg.E)).val
       /\ result.ts_init = ts_init
       /\ result.instrument_id = InstrumentId(ctx, BINANCE_VENUE)
       /\ result.book_type = "L2_MBP"
       /\ \A i \in 1..Len(result.deltas) :
              /\ result.deltas[i].ts_event = result.ts_event
              /\ result.deltas[i].ts_init = ts_init
              /\ result.deltas[i].instrument_id = result.instrument_id
              /\ result.deltas[i].book_type = "L2_MBP"

C8_Witness ==
    /\ Returned("parse_diff_depth_stream_ws")
    /\ Len(msg.b) >= 1 /\ Len(msg.a) >= 1
    /\ result.ts_event = 1000000000
    /\ result.deltas[1].ts_event # result.deltas[1].ts_init

\* C5 as stated: a depth update whose bid or ask list is absent, or which
\* holds a level tuple that is not exactly a 2-element pair, fails and
\* returns no batch.
C5_MalformedDepthFails ==
    (fn = "parse_diff_depth_stream_ws" /\ result.kind # "pending"
        /\ \/ "b" \notin DOMAIN msg
           \/ "a" \notin DOMAIN msg
           \/ \E i \in 1..Len(msg.b) : Len(msg.b[i]) # 2
           \/ \E i \in 1..Len(msg.a) : Len(msg.a[i]) # 2)
    => result.kind = "error"

\* The wire names of a REST trade record's fields in the streaming format
WsKey(k) ==
    CASE k = "price" -> "p" [] k = "qty" -> "q" [] k = "isBuyerMaker" -> "m"
      [] k = "id" -> "t" [] k = "time" -> "T"

RestKeys == {"price", "qty", "isBuyerMaker", "id", "time"}

\* The streaming record that agrees with REST record m field by field
AsWsTrade(m) ==
    [k \in {WsKey(j) : j \in DOMAIN m} |->
        m[CHOOSE j \in RestKeys : WsKey(j) = k]]

\* s is the decimal rendering of n: digits only, no leading zero, value n
Renders(s, n) ==
    /\ Len(s) >= 1 /\ AllDigits(s)
    /\ Len(s) > 1 => s[1] # "0"
    /\ DigitsVal(s) = n

\* C6: both trade translators give aggressor SELL when the maker flag is
\* true and BUY when it is false, and on records that agree on price,
\* quantity, id, flag and trade time they give the same aggressor side,
\* match id (the id rendered as a string) and ts_event.
C6_SameAggressorRule ==
    /\ Returned("parse_trade_tick")
       => /\ result.aggressor_side = IF msg.isBuyerMaker THEN "SELL" ELSE "BUY"
          /\ Renders(result.match_id, msg.id)
          /\ LET ws == parse_trade_tick_ws(AsWsTrade(msg), ctx.symbol, ts_init)
             IN  /\ ws.kind = "TradeTick"
                 /\ ws.aggressor_side = result.aggressor_side
                 /\ ws.match_id = result.match_id
                 /\ ws.ts_event = result.ts_event
    /\ Returned("parse_trade_tick_ws")
       => /\ result.aggressor_side = IF msg.m THEN "SELL" ELSE "BUY"
          /\ Renders(result.match_id, msg.t)

C6_Witness ==
    /\ Returned("parse_trade_tick")
    /\ msg.isBuyerMaker /\ msg.id = 42 /\ msg.time = 2000
    /\ result.aggressor_side = "SELL"
    /\ result.match_id = <<"4", "2">>
    /\ result.ts_event = 2000000000

\* C7: every returned record carries the caller's ts_init; its ts_event is
\* the millisecond-to-nanosecond conversion of the wire time (event time
\* "E" for depth, ticker and streaming bar, trade time for both trade
\* variants, open time for the REST bar), and is ts_init itself only for
\* the streaming book-ticker quote.
C7_Timestamps ==
    result.kind \notin {"pending", "error"}
    => /\ result.ts_init = ts_init
       /\ fn \in {"parse_diff_depth_stream_ws", "parse_ticker_ws",
                  "parse_bar_ws"}
          => result.ts_event = millis_to_nanos(Ok(msg.E)).val
       /\ fn = "parse_trade_tick"
          => result.ts_event = millis_to_nanos(Ok(msg.time)).val
       /\ fn = "parse_trade_tick_ws"
          => result.ts_event = millis_to_nanos(Ok(msg.T)).val
       /\ fn = "parse_bar" => result.ts_event = millis_to_nanos(Ok(msg[1])).val
       /\ fn = "parse_quote_tick_ws" => result.ts_event = ts_init
       /\ fn = "parse_order_book_delta_ws"
          => result.ts_event = ctx.ts_event

\* A streaming trade whose event time and trade time differ
C7_Witness ==
    /\ Returned("parse_trade_tick_ws")
    /\ "E" \in DOMAIN msg /\ msg.E # msg.T
    /\ result.ts_event = 1000000000
    /\ result.ts_init = 5000

\* An interval code: one or more digits and then one letter
IsIntervalCode(i) ==
    /\ Len(i) >= 2
    /\ AllDigits(SubSeq(i, 1, Len(i) - 1))
    /\ i[Len(i)] \notin Digits

UnitOf(i) == i[Len(i)]

UnitTable(un) ==
    CASE un = "m" -> "MINUTE" [] un = "h" -> "HOUR" [] un = "d" -> "DAY"

\* Everything of a streaming kline but its interval code is in order
KlineInOrder(m, kline) ==
    /\ "E" \in DOMAIN m /\ m.E >= 0
    /\ {"i", "s", "o", "h", "l", "c", "v", "q", "n", "V", "Q"}
           \subseteq DOMAIN kline
    /\ \A k \in {"o", "h", "l", "c", "v", "q", "V", "Q"} : IsLiteral(kline[k])

\* C1 as stated: for every interval code the step is the whole leading
\* numeric portion and the aggregation unit is given by the trailing letter
\* (m minute, h hour, d day), also when the numeric portion has several
\* digits; a code with any other trailing letter fails as unsupported and
\* yields no bar.
C1_IntervalCode ==
    (fn = "parse_bar_ws" /\ result.kind # "pending"
        /\ KlineInOrder(msg, ctx) /\ IsIntervalCode(ctx.i))
    => IF UnitOf(ctx.i) \in {"m", "h", "d"}
       THEN /\ result.kind = "BinanceBar"
            /\ result.bar_type.bar_spec.step
                   = DigitsVal(SubSeq(ctx.i, 1, Len(ctx.i) - 1))
            /\ result.bar_type.bar_spec.aggregation = UnitTable(UnitOf(ctx.i))
       ELSE result.kind = "error" /\ result.error = "RuntimeError"

\* C2 as stated: the quote tick takes each of its four quoted values from
\* its own wire field: bid from "b", ask from "a", bid_size from "B" and
\* ask_size from "A".
C2_QuoteFields ==
    (Returned("parse_quote_tick_ws")
        /\ {"b", "a", "B", "A"} \subseteq DOMAIN msg /\ IsLiteral(msg.A))
    => /\ result.bid = ParseDecimal(msg.b).val
       /\ result.ask = ParseDecimal(msg.a).val
       /\ result.bid_size = ParseDecimal(msg.B).val
       /\ result.ask_size = ParseDecimal(msg.A).val

\* The keys each wire format carries for its canonical record
RequiredKeys ==
    [parse_ticker_ws |-> {"p", "P", "w", "x", "c", "Q", "b", "a", "o", "h",
                          "l", "v", "q", "O", "C", "F", "L", "n", "E"},
     parse_quote_tick_ws |-> {"b", "a", "B", "A"},
     parse_trade_tick |-> {"price", "qty", "isBuyerMaker", "id", "time"},
     parse_trade_tick_ws |-> {"p", "q", "m", "t", "T"}]

\* The keys whose values are numeric literals, and those that are times
LiteralKeys ==
    [parse_ticker_ws |-> {"p", "P", "w", "x", "c", "Q", "b", "a", "o", "h",
                          "l", "v", "q"},
     parse_quote_tick_ws |-> {"b", "a", "B", "A"},
     parse_trade_tick |-> {"price", "qty"},
     parse_trade_tick_ws |-> {"p", "q"}]

TimeKeys ==
    [parse_ticker_ws |-> {"E"}, parse_quote_tick_ws |-> {},
     parse_trade_tick |-> {"time"}, parse_trade_tick_ws |-> {"T"}]

\* C9 as stated: for the quote, trade and ticker translators a record that
\* lacks a required key (its other fields being in order) yields the
\* missing-field failure and no output record.
C9_MissingKeyFails ==
    (/\ fn \in DOMAIN RequiredKeys
     /\ result.kind # "pending"
     /\ RequiredKeys[fn] \ DOMAIN msg # {}
     /\ \A k \in LiteralKeys[fn] \cap DOMAIN msg : IsLiteral(msg[k])
     /\ \A k \in TimeKeys[fn] \cap DOMAIN msg : msg[k] >= 0)
    => result.kind = "error" /\ result.error = "KeyError"

===========================================================================
